---- MODULE Spec2Model ----
(***************************************************************************)
(* Model of the endstone rank-system plugin (rank_system.py): the rank     *)
(* store (selected / ranks), the durable ranks.json file, the host         *)
(* scoreboard counters, name tags, and every handler of the plugin.        *)
(***************************************************************************)
EXTENDS Integers, Sequences, FiniteSets, TLC

VARIABLES
    running,     \* the plugin is enabled (events registered)
    selected,    \* self._selected : uid -> stat
    ranks,       \* self._ranks    : uid -> (stat -> label)
    dataFile,    \* content of <data_folder>/ranks.json
    objectives,  \* scoreboard objectives that exist
    score,       \* scoreboard: player -> stat -> value
    sbEntries,   \* scoreboard entries, in the scoreboard's enumeration order
    online,      \* server.online_players
    nameTag,     \* player.name_tag of each player (label part)
    events,      \* what the last handler emitted, in order
    snapshot,    \* store held when on_disable last ran (cleared by the next start)
    sinceReset,  \* players tracked at the last /resetranks and not recorded since
    probe,       \* argument and result of a direct _get_rank_name call
    notifyFault, \* which host messaging call raises: "none", "broadcast" or "title"
    lastWrite,   \* store last written to the file by on_disable or /resetranks
    unclean,     \* the process was killed while the plugin was running (since the last reset)
    granted,     \* (player, stat, label) promotions announced since the last reset or kill
    steps        \* handlers run so far

vars == <<running, selected, ranks, dataFile, objectives, score, sbEntries,
          online, nameTag, events, snapshot, sinceReset, probe, notifyFault, lastWrite, unclean, granted,
          steps>>

---------------------------------------------------------------------------
(* Bounds *)
MaxSteps == 6        \* handlers run in one explored behaviour
MaxDelta == 1        \* increments explored past each seeded counter value
MaxCount == 501      \* largest count handed to _get_rank_name directly
MaxLBScore == 2      \* largest counter value in the leaderboard inputs

Players == {"p1", "p2"}
LBPlayers == {"p1", "p2", "p3", "p4", "p5", "p6"}

---------------------------------------------------------------------------
(* Program constants *)
NEWBIE_TAG == "Newbie"
TopN == 5
None == "None"
NoTag == "NoTag"

StatOrder == <<"mob_kills", "player_kills", "ores_mined">>
Stats == {StatOrder[i] : i \in 1..Len(StatOrder)}

RANKS ==
    [mob_kills    |-> << [threshold |-> 0,   name |-> "Hunter"],
                         [threshold |-> 20,  name |-> "Slayer"],
                         [threshold |-> 100, name |-> "Beastmaster"] >>,
     player_kills |-> << [threshold |-> 0,   name |-> "Fighter"],
                         [threshold |-> 15,  name |-> "Warrior"],
                         [threshold |-> 50,  name |-> "Champion"] >>,
     ores_mined   |-> << [threshold |-> 0,   name |-> "Miner"],
                         [threshold |-> 100, name |-> "Excavator"],
                         [threshold |-> 500, name |-> "Prospector"] >>]

---------------------------------------------------------------------------
(* Python dict helpers *)
EmptyDict == [k \in {} |-> k]

Get(d, k, default) == IF k \in DOMAIN d THEN d[k] ELSE default

Put(d, k, v) == [x \in (DOMAIN d) \cup {k} |-> IF x = k THEN v ELSE d[x]]

---------------------------------------------------------------------------
(* _get_rank_name *)
RECURSIVE RankLoop_Strict(_, _, _, _)
\* mutant: a tier is reached only above its threshold
RankLoop_Strict(tiers, i, value, rank) ==
    IF i > Len(tiers) THEN rank
    ELSE IF value > tiers[i].threshold
         THEN RankLoop_Strict(tiers, i + 1, value, tiers[i].name)
         ELSE rank

RECURSIVE RankLoop(_, _, _, _)
RankLoop(tiers, i, value, rank) ==
    IF i > Len(tiers) THEN rank
    ELSE IF value >= tiers[i].threshold
         THEN RankLoop(tiers, i + 1, value, tiers[i].name)
         ELSE rank

\* objective names with no entry in RANKS
UnknownStats == {"deaths"}

GetRankName(obj_name, value) ==
    LET tiers == Get(RANKS, obj_name, <<>>)
        rank  == IF tiers # <<>> THEN tiers[1].name ELSE ""
    IN  RankLoop(tiers, 1, value, rank)

---------------------------------------------------------------------------
(* Events a handler emits *)
Ev(type, player, stat, label, n) ==
    [type |-> type, player |-> player, stat |-> stat, label |-> label, n |-> n]

---------------------------------------------------------------------------
(* _apply_rank_benefits.  Labels are modelled without their colour prefix, *)
(* so rank_name.endswith(X) is rank_name = X.                              *)
RewardFor(stat, rank_name) ==
    IF stat = "mob_kills" THEN
        IF rank_name = "Hunter" THEN "32x minecraft:bread"
        ELSE IF rank_name = "Slayer" THEN "32x minecraft:cooked_beef"
        ELSE IF rank_name = "Beastmaster" THEN "2x minecraft:golden_apple"
        ELSE ""
    ELSE IF stat = "player_kills" THEN
        IF rank_name = "Fighter" THEN "a full set of Leather Armor"
        ELSE IF rank_name = "Warrior" THEN "a full set of Iron Armor"
        ELSE IF rank_name = "Champion" THEN "a full set of Diamond Armor"
        ELSE ""
    ELSE IF stat = "ores_mined" THEN
        IF rank_name = "Miner" THEN "permanent Haste I"
        ELSE IF rank_name = "Excavator" THEN "permanent Haste II"
        ELSE IF rank_name = "Prospector" THEN "permanent Night Vision"
        ELSE ""
    ELSE ""

\* number of inventory / effect calls the reward makes
RewardCalls(stat, rank_name) ==
    IF RewardFor(stat, rank_name) = "" THEN 0
    ELSE IF stat = "player_kills" THEN 4 ELSE 1

\* mutant: the collaborator's exception is not caught
ApplyRankBenefits_Uncaught(player, rank_name, stat, fail) ==
    IF RewardCalls(stat, rank_name) = 0
    THEN [ev |-> <<>>, raised |-> FALSE]
    ELSE IF fail
    THEN [ev |-> << Ev("reward_failed", player, stat, rank_name, 0) >>, raised |-> TRUE]
    ELSE [ev |-> << Ev("reward", player, stat, rank_name, RewardCalls(stat, rank_name)),
                    Ev("confirm", player, stat, rank_name, 0) >>,
          raised |-> FALSE]

\* fail: the inventory/effect collaborator raises on its first call.  The
\* try/except Exception catches and logs it, so nothing is raised to the
\* caller: the result is the events emitted and whether an exception escapes.
ApplyRankBenefits(player, rank_name, stat, fail) ==
    IF RewardCalls(stat, rank_name) = 0
    THEN [ev |-> <<>>, raised |-> FALSE]
    ELSE IF fail
    THEN [ev |-> << Ev("reward_failed", player, stat, rank_name, 0) >>, raised |-> FALSE]
    ELSE [ev |-> << Ev("reward", player, stat, rank_name, RewardCalls(stat, rank_name)),
                    Ev("confirm", player, stat, rank_name, 0) >>,
          raised |-> FALSE]

---------------------------------------------------------------------------
(* _set_display_rank.  A handler's working state is a record               *)
(* [ranks, tags, ev, raised]: the ranks mapping, the name tags, the events *)
(* so far, and whether an exception is propagating out of the handler.    *)
\* mutant: the cached label is shown without looking at the raw count
DisplayRank_NoZeroCheck(sel, rk, sc, player) ==
    LET stat == Get(sel, player, "mob_kills")
        r    == Get(rk, player, EmptyDict)
    IN  IF stat \in DOMAIN r THEN r[stat] ELSE NEWBIE_TAG

DisplayRank(sel, rk, sc, player) ==
    LET stat == Get(sel, player, "mob_kills")
        s    == sc[player][stat]
        r    == Get(rk, player, EmptyDict)
    IN  IF s > 0 /\ stat \in DOMAIN r THEN r[stat] ELSE NEWBIE_TAG

SetDisplayRank(st, sel, sc, player) ==
    LET rank_name == DisplayRank(sel, st.ranks, sc, player)
    IN  [st EXCEPT !.tags[player] = rank_name,
                   !.ev = Append(@, Ev("nametag", player,
                                       Get(sel, player, "mob_kills"), rank_name, 0))]

---------------------------------------------------------------------------
(* _update_stat *)
\* mutant: every recording is treated as a promotion
IsPromotion_Always(old_rank, rank_name) == TRUE

\* mutant: a first recording is not a promotion
IsPromotion_NoFirst(old_rank, rank_name) == old_rank # None /\ old_rank # rank_name

\* old_rank != rank_name
IsPromotion(old_rank, rank_name) == old_rank # rank_name

\* server.broadcast_message and player.send_title: the call notifyFault
\* names raises, and the exception leaves _update_stat
Notify(player, stat, rank_name) ==
    IF notifyFault = "broadcast"
    THEN [ev |-> << Ev("broadcast_failed", player, stat, rank_name, 0) >>, raised |-> TRUE]
    ELSE IF notifyFault = "title"
    THEN [ev |-> << Ev("broadcast", player, stat, rank_name, 0),
                    Ev("title_failed", player, stat, rank_name, 0) >>,
          raised |-> TRUE]
    ELSE [ev |-> << Ev("broadcast", player, stat, rank_name, 0),
                    Ev("title", player, stat, rank_name, 0) >>,
          raised |-> FALSE]

\* mutant: the label is stored only after the notifications went out
UpdateStat_NotifyFirst(st, sel, sc, player, stat, fail) ==
    LET rank_name == GetRankName(stat, sc[player][stat])
        prev      == Get(st.ranks, player, EmptyDict)
        old_rank  == Get(prev, stat, None)
        ben == ApplyRankBenefits(player, rank_name, stat, fail)
        out == Notify(player, stat, rank_name)
        st1 == IF ~IsPromotion(old_rank, rank_name) THEN st
               ELSE IF ben.raised \/ out.raised
               THEN [st EXCEPT !.ev = ((@ \o ben.ev) \o out.ev)
                                        \o << Ev("error", player, stat, "-", 0) >>,
                               !.raised = TRUE]
               ELSE [st EXCEPT !.ev = (@ \o ben.ev) \o out.ev]
        st2 == [st1 EXCEPT !.ranks = Put(st.ranks, player, Put(prev, stat, rank_name)),
                           !.ev = Append(@, Ev("commit", player, stat, rank_name, 0))]
    IN  IF st.raised THEN st
        ELSE IF st1.raised THEN st1
        ELSE IF Get(sel, player, None) = stat
        THEN SetDisplayRank(st2, sel, sc, player)
        ELSE st2

\* an exception raised inside a call skips the rest of the handler
UpdateStat(st, sel, sc, player, stat, fail) ==
    LET rank_name == GetRankName(stat, sc[player][stat])
        prev      == Get(st.ranks, player, EmptyDict)
        old_rank  == Get(prev, stat, None)
        st1 == [st EXCEPT !.ranks = Put(st.ranks, player, Put(prev, stat, rank_name)),
                          !.ev = Append(@, Ev("commit", player, stat, rank_name, 0))]
        ben == ApplyRankBenefits(player, rank_name, stat, fail)
        out == Notify(player, stat, rank_name)
        st2 == IF ~IsPromotion(old_rank, rank_name) THEN st1
               ELSE IF ben.raised
               THEN [st1 EXCEPT !.ev = (@ \o ben.ev) \o << Ev("error", player, stat, "-", 0) >>,
                                !.raised = TRUE]
               ELSE IF out.raised
               THEN [st1 EXCEPT !.ev = ((@ \o ben.ev) \o out.ev)
                                         \o << Ev("error", player, stat, "-", 0) >>,
                                !.raised = TRUE]
               ELSE [st1 EXCEPT !.ev = (@ \o ben.ev) \o out.ev]
    IN  IF st.raised THEN st
        ELSE IF st2.raised THEN st2
        ELSE IF Get(sel, player, None) = stat
        THEN SetDisplayRank(st2, sel, sc, player)
        ELSE st2

RECURSIVE UpdateStats(_, _, _, _, _, _)
\* _update_stat for each stat of the sequence todo, in order
UpdateStats(st, sel, sc, player, todo, failSet) ==
    IF todo = <<>> THEN st
    ELSE UpdateStats(UpdateStat(st, sel, sc, player, Head(todo), Head(todo) \in failSet),
                     sel, sc, player, Tail(todo), failSet)

---------------------------------------------------------------------------
(* _leaderboard_lines *)
RECURSIVE InsertDesc_Asc(_, _, _)
\* mutant: the sort is ascending
InsertDesc_Asc(res, x, key) ==
    IF res = <<>> THEN <<x>>
    ELSE IF key[Head(res)] <= key[x]
         THEN <<Head(res)>> \o InsertDesc_Asc(Tail(res), x, key)
         ELSE <<x>> \o res

RECURSIVE InsertDesc(_, _, _)
\* list.sort(key=count, reverse=True) is stable: x goes after every element
\* whose key is >= its own
InsertDesc(res, x, key) ==
    IF res = <<>> THEN <<x>>
    ELSE IF key[Head(res)] >= key[x]
         THEN <<Head(res)>> \o InsertDesc(Tail(res), x, key)
         ELSE <<x>> \o res

RECURSIVE SortDesc(_, _)
SortDesc(seq, key) ==
    IF seq = <<>> THEN <<>>
    ELSE InsertDesc(SortDesc(SubSeq(seq, 1, Len(seq) - 1), key), seq[Len(seq)], key)

\* mutant: entries with a zero count are listed too
Qualifies_AllowZero(e, stat, onl, sc) == e \in onl /\ sc[e][stat] >= 0

\* isinstance(entry, Player) holds of the entries of connected players;
\* an entry is listed when its value is > 0
Qualifies(e, stat, onl, sc) == e \in onl /\ sc[e][stat] > 0

LeaderboardLines(stat, entries, onl, sc, sel, rk) ==
    LET IsScored(e) == Qualifies(e, stat, onl, sc)
        scores == SelectSeq(entries, IsScored)
        key    == [e \in DOMAIN sc |-> sc[e][stat]]
        sorted == SortDesc(scores, key)
        top    == SubSeq(sorted, 1, IF Len(sorted) < TopN THEN Len(sorted) ELSE TopN)
        lines  == [i \in 1..Len(top) |->
                     Ev("row", top[i], stat,
                        Get(Get(rk, top[i], EmptyDict),
                            Get(sel, top[i], "mob_kills"), NEWBIE_TAG),
                        key[top[i]])]
    IN  IF lines = <<>> THEN << Ev("nodata", "-", stat, "-", 0) >> ELSE lines

---------------------------------------------------------------------------
(* ranks.json.  A JSON object is the set of its <<key, value>> members; the *)
(* file is [kind, selected, ranks] with kind one of                        *)
(*   "missing"   no file                                                   *)
(*   "garbage"   not JSON (json.load raises JSONDecodeError)               *)
(*   "array"     valid JSON whose top level is not an object               *)
(*   "badranks"  an object whose "ranks" member is not an object           *)
(*   "store"     the two mappings                                          *)
JsonObject(d) == {<<k, d[k]>> : k \in DOMAIN d}

ParseObject(members) ==
    [k \in {m[1] : m \in members} |-> (CHOOSE m \in members : m[1] = k)[2]]

File(kind, sel, rk) == [kind |-> kind, selected |-> sel, ranks |-> rk]

\* mutant: players whose rank record is empty are not written
JsonDump_DropEmpty(sel, rk) ==
    File("store", JsonObject(sel),
         {<<k, JsonObject(rk[k])>> : k \in {x \in DOMAIN rk : DOMAIN rk[x] # {}}})

JsonDump(sel, rk) ==
    File("store", JsonObject(sel), {<<k, JsonObject(rk[k])>> : k \in DOMAIN rk})

LoadSelected(f) == ParseObject(f.selected)

\* mutant: the saved labels are not loaded
LoadRanks_Empty(f) == EmptyDict

LoadRanks(f) ==
    LET outer == ParseObject(f.ranks)
    IN  [k \in DOMAIN outer |-> ParseObject(outer[k])]

---------------------------------------------------------------------------
(* Host-side helpers *)
PlayerOrder == <<"p1", "p2", "p3", "p4", "p5", "p6">>

\* the players of S in the host's enumeration order
SeqOf(S) == LET In(e) == e \in S IN SelectSeq(PlayerOrder, In)

Reverse(seq) == [i \in 1..Len(seq) |-> seq[Len(seq) + 1 - i]]

NoSnapshot == [taken |-> FALSE, selected |-> EmptyDict, ranks |-> EmptyDict]
NoWrite == [by |-> "none", selected |-> EmptyDict, ranks |-> EmptyDict]
NoProbe == [stat |-> None, count |-> 0, result |-> None]

ZeroScores == [s \in Stats |-> 0]

\* counter values the exploration starts from: 0 and one below each threshold
SeedValue(stat, lvl) == IF lvl = 0 THEN 0 ELSE RANKS[stat][lvl + 1].threshold - 1

\* the exploration follows each counter MaxDelta increments past a seed value
CanIncr(stat, v) == \E lvl \in 0..2 : (v + 1) - SeedValue(stat, lvl) \in 1..MaxDelta

InitFiles ==
    { File("missing", {}, {}),
      File("garbage", {}, {}),
      File("array", {}, {}),
      File("badranks", {<<"p1", "ores_mined">>}, {}),
      File("store", {}, {}) }

\* seed level of each player's counters in the explored initial scoreboards
SeedLevels ==
    { [p1 |-> 0, p2 |-> 0], [p1 |-> 1, p2 |-> 0], [p1 |-> 2, p2 |-> 1] }

\* the file on_disable wrote in an earlier session in which p1 joined with
\* its counters at seed level 1
SavedFile ==
    JsonDump([p \in {"p1"} |-> "mob_kills"],
             [p \in {"p1"} |-> [s \in Stats |-> GetRankName(s, SeedValue(s, 1))]])

\* explored initial states: an empty store file with every seeded
\* scoreboard, every other kind of file with one scoreboard
InitCases ==
    {[file |-> File("store", {}, {}), lvl |-> l] : l \in SeedLevels}
    \cup {[file |-> f, lvl |-> [p1 |-> 1, p2 |-> 0]] : f \in InitFiles \cup {SavedFile}}

\* one more handler runs, within the explored horizon
Tick == steps < MaxSteps /\ steps' = steps + 1

Work == [ranks |-> ranks, tags |-> nameTag, ev |-> <<>>, raised |-> FALSE]

---------------------------------------------------------------------------
(* __init__ and the state the plugin is constructed in *)
\* the constructed plugin on one of the given files and scoreboards
Constructed(cases) ==
    /\ running = FALSE
    /\ selected = EmptyDict
    /\ ranks = EmptyDict
    /\ \E c \in cases :
          /\ dataFile = c.file
          /\ score = [p \in Players |-> [s \in Stats |-> SeedValue(s, c.lvl[p])]]
    /\ sbEntries = SeqOf({p \in Players : score[p] # ZeroScores})
    /\ objectives \in (IF sbEntries = <<>> THEN {{}, Stats} ELSE {Stats})
    /\ online = {}
    /\ nameTag = [p \in Players |-> NoTag]
    /\ events = <<>>
    /\ snapshot = NoSnapshot
    /\ sinceReset = {}
    /\ probe = NoProbe
    /\ granted = {}
    /\ unclean = FALSE
    /\ lastWrite = NoWrite
    /\ steps = 0

Init ==
    /\ Constructed(InitCases)
    /\ notifyFault = "none"

\* The server process ends (after on_disable, or killed while running) and a
\* new plugin instance is constructed: both mappings start empty again.
ProcessRestart ==
    /\ Tick
    /\ running' = FALSE
    /\ selected' = EmptyDict
    /\ ranks' = EmptyDict
    /\ online' = {}
    /\ nameTag' = [p \in DOMAIN nameTag |-> NoTag]
    /\ snapshot' = IF running THEN NoSnapshot ELSE snapshot
    /\ events' = <<>>
    /\ unclean' = (unclean \/ running)
    /\ granted' = IF running THEN {} ELSE granted
    /\ UNCHANGED <<dataFile, objectives, score, sbEntries, sinceReset, probe, notifyFault,
                   lastWrite>>

---------------------------------------------------------------------------
(* on_enable *)
OnEnable ==
    /\ ~running
    /\ Tick
    /\ snapshot' = NoSnapshot
    /\ IF dataFile.kind = "array"
       THEN \* data.get raises AttributeError, which is not caught
            /\ UNCHANGED <<selected, ranks, running, objectives>>
            /\ events' = << Ev("error", "-", "-", "on_enable", 0) >>
       ELSE IF dataFile.kind = "badranks"
       THEN \* _selected is assigned, then data["ranks"].items() raises
            /\ selected' = LoadSelected(dataFile)
            /\ UNCHANGED <<ranks, running, objectives>>
            /\ events' = << Ev("error", "-", "-", "on_enable", 0) >>
       ELSE /\ IF dataFile.kind = "store"
               THEN selected' = LoadSelected(dataFile) /\ ranks' = LoadRanks(dataFile)
               ELSE IF dataFile.kind = "garbage"
               THEN selected' = EmptyDict /\ ranks' = EmptyDict
               ELSE UNCHANGED <<selected, ranks>>
            /\ objectives' = objectives \cup Stats
            /\ running' = TRUE
            /\ events' = << Ev("enabled", "-", "-", dataFile.kind,
                               IF snapshot.taken THEN 1 ELSE 0) >>
    /\ UNCHANGED <<dataFile, score, sbEntries, online, nameTag, sinceReset, probe, notifyFault,
                   lastWrite, unclean, granted>>

(* on_disable.  _data_file is set whenever the plugin is running. *)
OnDisable ==
    /\ running
    /\ Tick
    /\ dataFile' = JsonDump(selected, ranks)
    /\ running' = FALSE
    /\ snapshot' = [taken |-> TRUE, selected |-> selected, ranks |-> ranks]
    /\ events' = << Ev("disabled", "-", "-", "-", 0) >>
    /\ lastWrite' = [by |-> "disable", selected |-> selected, ranks |-> ranks]
    /\ UNCHANGED <<selected, ranks, objectives, score, sbEntries, online, nameTag,
                   sinceReset, probe, notifyFault, unclean, granted>>

---------------------------------------------------------------------------
(* Event handlers *)
\* the (player, stat, label) triples a handler's events announce a promotion
\* for: _apply_rank_benefits dispatched or broadcast_message was called
Promoted(ev) ==
    {<<ev[i].player, ev[i].stat, ev[i].label>> :
        i \in {j \in 1..Len(ev) : ev[j].type \in {"reward", "reward_failed", "broadcast"}}}

\* the increment of on_actor_death / on_player_death / on_block_break,
\* followed by _update_stat
\* mutant: the stat is recorded before the counter is incremented
Progress_RecordFirst(p, stat, fail) ==
    /\ running
    /\ Tick
    /\ p \in online
    /\ CanIncr(stat, score[p][stat])
    /\ score' = [score EXCEPT ![p][stat] = @ + 1]
    /\ sbEntries' = IF \E i \in 1..Len(sbEntries) : sbEntries[i] = p
                    THEN sbEntries ELSE Append(sbEntries, p)
    /\ LET st == UpdateStat(Work, selected, score, p, stat, fail)
       IN  /\ ranks' = st.ranks
           /\ nameTag' = st.tags
           /\ events' = st.ev
           /\ granted' = granted \cup Promoted(st.ev)
    /\ sinceReset' = sinceReset \ {p}
    /\ UNCHANGED <<running, selected, dataFile, objectives, online, snapshot, probe,
                   notifyFault, lastWrite, unclean>>

\* mutant: the store is written to the file after every recording
Progress_Flush(p, stat, fail) ==
    /\ running
    /\ Tick
    /\ p \in online
    /\ CanIncr(stat, score[p][stat])
    /\ score' = [score EXCEPT ![p][stat] = @ + 1]
    /\ sbEntries' = IF \E i \in 1..Len(sbEntries) : sbEntries[i] = p
                    THEN sbEntries ELSE Append(sbEntries, p)
    /\ LET st == UpdateStat(Work, selected, score', p, stat, fail)
       IN  /\ ranks' = st.ranks
           /\ nameTag' = st.tags
           /\ events' = st.ev
           /\ granted' = granted \cup Promoted(st.ev)
    /\ dataFile' = JsonDump(selected, ranks')
    /\ sinceReset' = sinceReset \ {p}
    /\ UNCHANGED <<running, selected, objectives, online, snapshot, probe, notifyFault,
                   lastWrite, unclean>>

Progress(p, stat, fail) ==
    /\ running
    /\ Tick
    /\ p \in online
    /\ CanIncr(stat, score[p][stat])
    /\ score' = [score EXCEPT ![p][stat] = @ + 1]
    /\ sbEntries' = IF \E i \in 1..Len(sbEntries) : sbEntries[i] = p
                    THEN sbEntries ELSE Append(sbEntries, p)
    /\ LET st == UpdateStat(Work, selected, score', p, stat, fail)
       IN  /\ ranks' = st.ranks
           /\ nameTag' = st.tags
           /\ events' = st.ev
           /\ granted' = granted \cup Promoted(st.ev)
    /\ sinceReset' = sinceReset \ {p}
    /\ UNCHANGED <<running, selected, dataFile, objectives, online, snapshot, probe,
                   notifyFault, lastWrite, unclean>>

OnActorDeath(p, fail) == Progress(p, "mob_kills", fail)

OnPlayerDeath(p, fail) == Progress(p, "player_kills", fail)

OnBlockBreak(p, isOre, fail) ==
    IF isOre
    THEN Progress(p, "ores_mined", fail)
    ELSE /\ running
         /\ Tick
         /\ p \in online
         /\ events' = <<>>   \* only a log line
         /\ UNCHANGED <<running, selected, ranks, dataFile, objectives, score,
                        sbEntries, online, nameTag, snapshot, sinceReset, probe, notifyFault,
                   lastWrite, unclean, granted>>

\* mutant: the join always selects mob_kills
DefaultSelection_Always(sel, p) == Put(sel, p, "mob_kills")

\* if uid not in self._selected: self._selected[uid] = "mob_kills"
DefaultSelection(sel, p) ==
    IF p \in DOMAIN sel THEN sel ELSE Put(sel, p, "mob_kills")

OnPlayerJoin(p, failSet) ==
    /\ running
    /\ Tick
    /\ p \notin online
    /\ online' = online \cup {p}
    /\ LET sel1 == DefaultSelection(selected, p)
           st1  == SetDisplayRank(Work, sel1, score, p)
           st2  == IF score[p] = ZeroScores
                   THEN [st1 EXCEPT !.ev = Append(@, Ev("hint", p, "-", "-", 0))]
                   ELSE st1
           mine == Get(ranks, p, EmptyDict)
           st3  == [st2 EXCEPT !.ranks = Put(ranks, p, mine)]
           Todo(s) == s \notin DOMAIN mine /\ score[p][s] > 0
           todo == SelectSeq(StatOrder, Todo)
           st4  == UpdateStats(st3, sel1, score, p, todo, failSet)
       IN  /\ selected' = sel1
           /\ ranks' = st4.ranks
           /\ nameTag' = st4.tags
           /\ events' = st4.ev
           /\ granted' = granted \cup Promoted(st4.ev)
           /\ sinceReset' = IF todo = <<>> THEN sinceReset ELSE sinceReset \ {p}
    /\ UNCHANGED <<running, dataFile, objectives, score, sbEntries, snapshot, probe,
                   notifyFault, lastWrite, unclean>>

\* the player disconnects: its Player object, and with it its name tag, is gone
PlayerQuit(p) ==
    /\ Tick
    /\ p \in online
    /\ online' = online \ {p}
    /\ nameTag' = [nameTag EXCEPT ![p] = NoTag]
    /\ events' = <<>>
    /\ UNCHANGED <<running, selected, ranks, dataFile, objectives, score, sbEntries,
                   snapshot, sinceReset, probe, notifyFault,
                   lastWrite, unclean, granted>>

ChatPrefix(sel, rk, sc, p) ==
    IF \A s \in Stats : sc[p][s] = 0
    THEN NEWBIE_TAG
    ELSE Get(Get(rk, p, EmptyDict), Get(sel, p, "mob_kills"), NEWBIE_TAG)

OnPlayerChat(p) ==
    /\ running
    /\ Tick
    /\ p \in online
    /\ events' = << Ev("chat", p, Get(selected, p, "mob_kills"),
                       ChatPrefix(selected, ranks, score, p), 0) >>
    /\ UNCHANGED <<running, selected, ranks, dataFile, objectives, score, sbEntries,
                   online, nameTag, snapshot, sinceReset, probe, notifyFault,
                   lastWrite, unclean, granted>>

---------------------------------------------------------------------------
(* on_command *)
\* /rank -> Rank Display -> sub_handle(p2, idx)
\* mutant: the selection also records the selected stat
SubHandle_Recompute(p, idx) ==
    /\ running
    /\ Tick
    /\ p \in online
    /\ IF idx < 0 \/ idx > 2
       THEN /\ events' = <<>>
            /\ UNCHANGED <<selected, ranks, nameTag>>
       ELSE LET sel1 == Put(selected, p, StatOrder[idx + 1])
                st   == UpdateStat(SetDisplayRank(Work, sel1, score, p), sel1, score, p,
                                   StatOrder[idx + 1], FALSE)
            IN  /\ selected' = sel1
                /\ ranks' = st.ranks
                /\ nameTag' = st.tags
                /\ events' = Append(st.ev, Ev("shown", p, StatOrder[idx + 1], "-", 0))
    /\ UNCHANGED <<running, dataFile, objectives, score, sbEntries, online,
                   snapshot, sinceReset, probe, notifyFault,
                   lastWrite, unclean, granted>>

SubHandle(p, idx) ==
    /\ running
    /\ Tick
    /\ p \in online
    /\ IF idx < 0 \/ idx > 2
       THEN /\ events' = <<>>
            /\ UNCHANGED <<selected, nameTag>>
       ELSE LET sel1 == Put(selected, p, StatOrder[idx + 1])
                st   == SetDisplayRank(Work, sel1, score, p)
            IN  /\ selected' = sel1
                /\ nameTag' = st.tags
                /\ events' = Append(st.ev, Ev("shown", p, StatOrder[idx + 1], "-", 0))
    /\ UNCHANGED <<running, ranks, dataFile, objectives, score, sbEntries, online,
                   snapshot, sinceReset, probe, notifyFault,
                   lastWrite, unclean, granted>>

\* /rank -> Leaderboards -> board_handle(p2, idx)
BoardHandle(p, idx) ==
    /\ running
    /\ Tick
    /\ p \in online
    /\ events' = IF idx < 0 \/ idx > 2 THEN <<>>
                 ELSE LeaderboardLines(StatOrder[idx + 1], sbEntries, online, score,
                                       selected, ranks)
    /\ UNCHANGED <<running, selected, ranks, dataFile, objectives, score, sbEntries,
                   online, nameTag, snapshot, sinceReset, probe, notifyFault,
                   lastWrite, unclean, granted>>

RankUp(p, permitted, failSet) ==
    /\ running
    /\ Tick
    /\ p \in online
    /\ IF ~permitted
       THEN /\ events' = << Ev("denied", p, "-", "-", 0) >>
            /\ UNCHANGED <<ranks, nameTag, sinceReset, granted>>
       ELSE LET st == UpdateStats(Work, selected, score, p, StatOrder, failSet)
            IN  /\ ranks' = st.ranks
                /\ nameTag' = st.tags
                /\ events' = st.ev
                /\ granted' = granted \cup Promoted(st.ev)
                /\ sinceReset' = sinceReset \ {p}
    /\ UNCHANGED <<running, selected, dataFile, objectives, score, sbEntries, online,
                   snapshot, probe, notifyFault, lastWrite, unclean>>

\* mutant: the ranks mapping is not cleared
ResetStore_KeepRanks == [selected |-> EmptyDict, ranks |-> ranks]

\* self._ranks.clear(); self._selected.clear()
ResetStore == [selected |-> EmptyDict, ranks |-> EmptyDict]

\* mutant: the file is not rewritten
ResetFile_Stale == dataFile

\* json.dump({"selected": {}, "ranks": {}}, f)
ResetFile == JsonDump(EmptyDict, EmptyDict)

RECURSIVE RefreshAll(_, _, _, _)
RefreshAll(st, sel, sc, todo) ==
    IF todo = <<>> THEN st
    ELSE RefreshAll(SetDisplayRank(st, sel, sc, Head(todo)), sel, sc, Tail(todo))

ResetRanks(p, permitted) ==
    /\ running
    /\ Tick
    /\ p \in online
    /\ IF ~permitted
       THEN /\ events' = << Ev("denied", p, "-", "-", 0) >>
            /\ UNCHANGED <<selected, ranks, dataFile, score, sbEntries, nameTag, sinceReset,
                           lastWrite, unclean, granted>>
       ELSE LET tracked == {sbEntries[i] : i \in 1..Len(sbEntries)}
                sc1 == [q \in DOMAIN score |-> IF q \in tracked THEN ZeroScores ELSE score[q]]
                st  == RefreshAll([Work EXCEPT !.ranks = ResetStore.ranks],
                                  ResetStore.selected, sc1, SeqOf(online))
            IN  /\ ranks' = ResetStore.ranks
                /\ selected' = ResetStore.selected
                /\ dataFile' = ResetFile
                /\ lastWrite' = [by |-> "reset", selected |-> EmptyDict, ranks |-> EmptyDict]
                /\ unclean' = FALSE
                /\ granted' = {}
                /\ score' = sc1
                /\ sbEntries' = <<>>
                /\ nameTag' = st.tags
                /\ events' = Append(st.ev, Ev("reset_done", p, "-", "-", 0))
                /\ sinceReset' = sinceReset \cup (DOMAIN selected) \cup (DOMAIN ranks)
    /\ UNCHANGED <<running, objectives, online, snapshot, probe, notifyFault>>

---------------------------------------------------------------------------
Next ==
    \/ OnEnable
    \/ OnDisable
    \/ ProcessRestart
    \/ \E p \in Players, fail \in BOOLEAN : OnActorDeath(p, fail)
    \/ \E p \in Players, fail \in BOOLEAN : OnPlayerDeath(p, fail)
    \/ \E p \in Players, isOre \in BOOLEAN, fail \in BOOLEAN : OnBlockBreak(p, isOre, fail)
    \/ \E p \in Players, failSet \in SUBSET Stats : OnPlayerJoin(p, failSet)
    \/ \E p \in Players : PlayerQuit(p)
    \/ \E p \in Players : OnPlayerChat(p)
    \/ \E p \in Players, idx \in -1..3 : SubHandle(p, idx)
    \/ \E p \in Players, idx \in -1..3 : BoardHandle(p, idx)
    \/ \E p \in Players, permitted \in BOOLEAN, failSet \in SUBSET Stats :
          RankUp(p, permitted, failSet)
    \/ \E p \in Players, permitted \in BOOLEAN : ResetRanks(p, permitted)

Spec == Init /\ [][Next]_vars

---------------------------------------------------------------------------
(* The same handlers on a host whose broadcast_message, or whose            *)
(* send_title, raises.                                                     *)
NotifyCases ==
    {[file |-> File("store", {}, {}), lvl |-> l] :
        l \in {[p1 |-> 0, p2 |-> 0], [p1 |-> 1, p2 |-> 0]}}

InitNotify ==
    /\ Constructed(NotifyCases)
    /\ notifyFault \in {"broadcast", "title"}

SpecNotify == InitNotify /\ [][Next]_vars

---------------------------------------------------------------------------
(* _get_rank_name called directly on a stat and a count *)
InitResolve ==
    /\ running = FALSE
    /\ selected = EmptyDict
    /\ ranks = EmptyDict
    /\ dataFile = File("missing", {}, {})
    /\ objectives = {}
    /\ score = [p \in Players |-> ZeroScores]
    /\ sbEntries = <<>>
    /\ online = {}
    /\ nameTag = [p \in Players |-> NoTag]
    /\ events = <<>>
    /\ snapshot = NoSnapshot
    /\ sinceReset = {}
    /\ probe \in [stat : Stats \cup UnknownStats, count : 0..MaxCount, result : {None}]
    /\ granted = {}
    /\ unclean = FALSE
    /\ lastWrite = NoWrite
    /\ notifyFault = "none"
    /\ steps = 0

Resolve ==
    /\ probe.stat # None
    /\ probe.result = None
    /\ probe' = [probe EXCEPT !.result = GetRankName(probe.stat, probe.count)]
    /\ UNCHANGED <<running, selected, ranks, dataFile, objectives, score, sbEntries,
                   online, nameTag, events, snapshot, sinceReset, notifyFault, lastWrite, unclean, granted, steps>>

SpecResolve == InitResolve /\ [][Resolve]_vars

---------------------------------------------------------------------------
(* _leaderboard_lines over six known players: the board is queried once on *)
(* a scoreboard whose counters for one stat are drawn from 0..MaxLBScore.  *)
InitLB ==
    /\ running = TRUE
    /\ dataFile = File("store", {}, {})
    /\ objectives = Stats
    /\ \E stat \in Stats, v \in [LBPlayers -> 0..MaxLBScore], rev \in BOOLEAN :
          LET scored == {p \in LBPlayers : v[p] > 0}
          IN  /\ score = [p \in LBPlayers |->
                            [s \in Stats |-> IF s = stat THEN v[p] ELSE 0]]
              /\ sbEntries = IF rev THEN Reverse(SeqOf(scored)) ELSE SeqOf(scored)
              /\ ranks = [p \in scored |-> [s \in {stat} |-> GetRankName(stat, v[p])]]
    /\ selected = [p \in LBPlayers |-> "mob_kills"]
    /\ online \in {LBPlayers, LBPlayers \ {"p1"}}
    /\ nameTag = [p \in LBPlayers |->
                    IF p \in online THEN DisplayRank(selected, ranks, score, p) ELSE NoTag]
    /\ events = <<>>
    /\ snapshot = NoSnapshot
    /\ sinceReset = {}
    /\ probe = NoProbe
    /\ granted = {}
    /\ unclean = FALSE
    /\ lastWrite = NoWrite
    /\ notifyFault = "none"
    /\ steps = MaxSteps - 1

NextLB == \E p \in LBPlayers, idx \in -1..3 : BoardHandle(p, idx)

SpecLB == InitLB /\ [][NextLB]_vars

---------------------------------------------------------------------------
(* Properties *)

\* the display rule of the specification, on the current state
RuleLabel(p) ==
    LET stat == IF p \in DOMAIN selected THEN selected[p] ELSE "mob_kills"
    IN  IF score[p][stat] = 0 THEN NEWBIE_TAG
        ELSE IF p \in DOMAIN ranks /\ stat \in DOMAIN ranks[p] THEN ranks[p][stat]
        ELSE NEWBIE_TAG

\* number of events of the given type for (p, stat) in the event sequence ev
CountEv(ev, type, p, stat) ==
    Cardinality({i \in 1..Len(ev) :
                    ev[i].type = type /\ ev[i].player = p /\ ev[i].stat = stat})

HasEv(ev, type, p, stat, label) ==
    \E i \in 1..Len(ev) : ev[i] = Ev(type, p, stat, label, ev[i].n) /\ ev[i].type = type

\* label stored for (p, stat) in the ranks mapping rk, None when absent
Stored(rk, p, stat) ==
    IF p \in DOMAIN rk /\ stat \in DOMAIN rk[p] THEN rk[p][stat] ELSE None

\* C1: a progress recording emits a promotion (reward dispatch, broadcast and
\* title, each exactly once) if and only if the label it resolves differs from
\* the label stored for that player and stat just before the call; a recording
\* that resolves to the stored label emits none of them.
C1_PromotionIffLabelChange ==
    [][\A i \in 1..Len(events') :
          events'[i].type = "commit" =>
             LET p   == events'[i].player
                 s   == events'[i].stat
                 new == events'[i].label
                 old == Stored(ranks, p, s)
                 dispatched == CountEv(events', "reward", p, s)
                               + CountEv(events', "reward_failed", p, s)
             IN  /\ new = GetRankName(s, score'[p][s])
                 /\ CountEv(events', "commit", p, s) = 1
                 /\ IF old # new
                    THEN /\ dispatched = 1
                         /\ CountEv(events', "broadcast", p, s) = 1
                         /\ CountEv(events', "title", p, s) = 1
                         /\ HasEv(events', "broadcast", p, s, new)
                         /\ HasEv(events', "title", p, s, new)
                    ELSE /\ dispatched = 0
                         /\ CountEv(events', "confirm", p, s) = 0
                         /\ CountEv(events', "broadcast", p, s) = 0
                         /\ CountEv(events', "title", p, s) = 0]_vars

\* C1 witness: a mob kill took a player from 19 to 20 and the recording
\* promoted them to Slayer
C1_Witness ==
    \E p \in Players :
        /\ score[p]["mob_kills"] = 20
        /\ HasEv(events, "commit", p, "mob_kills", "Slayer")
        /\ HasEv(events, "broadcast", p, "mob_kills", "Slayer")

\* C2: whenever the last handler rendered a player's name tag, the tag is the
\* Newbie sentinel if the count of the selected stat (mob_kills when none is
\* stored) is 0, else the cached label of that stat if present, else Newbie.
C2_NameTagRule ==
    \A i \in 1..Len(events) :
        events[i].type = "nametag" => nameTag[events[i].player] = RuleLabel(events[i].player)

\* C2 witness: a tag was rendered as Newbie for a player whose selected stat
\* has count 0 although a label is cached for it
C2_Witness ==
    \E i \in 1..Len(events) :
        /\ events[i].type = "nametag"
        /\ LET p == events[i].player
           IN  /\ p \in DOMAIN selected
               /\ score[p][selected[p]] = 0
               /\ Stored(ranks, p, selected[p]) # None
               /\ nameTag[p] = NEWBIE_TAG

\* C3: the prefix of a chat message follows the display rule: Newbie when the
\* count of the selected stat is 0, else the cached label or Newbie.
C3_ChatPrefixRule ==
    \A i \in 1..Len(events) :
        events[i].type = "chat" => events[i].label = RuleLabel(events[i].player)

\* C4: _get_rank_name returns the label of the tier with the largest
\* threshold <= count, which is never empty.
C4_TierResolution ==
    (probe.result # None /\ probe.stat \in Stats) =>
        LET tiers == {RANKS[probe.stat][i] : i \in 1..Len(RANKS[probe.stat])}
            below == {t \in tiers : t.threshold <= probe.count}
        IN  /\ probe.result # ""
            /\ \E t \in below :
                  /\ \A u \in below : u.threshold <= t.threshold
                  /\ probe.result = t.name

\* C4 witness: a count exactly on a threshold resolved to that tier
C4_Witness ==
    probe.stat = "mob_kills" /\ probe.count = 20 /\ probe.result = "Slayer"

\* C5: a start that follows on_disable on the same file loads the selected and
\* ranks mappings that were held when on_disable ran.
C5_SaveLoadRoundTrip ==
    [][(snapshot.taken /\ ~running /\ running')
          => (selected' = snapshot.selected /\ ranks' = snapshot.ranks)]_vars

\* C5 witness: the plugin started after a clean shutdown with a store holding
\* a selection and a rank label
C5_Witness ==
    /\ Len(events) = 1
    /\ events[1].type = "enabled"
    /\ events[1].n = 1
    /\ \E p \in DOMAIN ranks : DOMAIN ranks[p] # {}
    /\ DOMAIN selected # {}

\* C6: a start on a missing or unparsable file (bad JSON, or JSON that is not
\* the two-mapping shape) raises nothing, leaves both mappings empty and goes
\* on to register the objectives and the events.
C6_LoadNeverRaises ==
    (/\ Len(events) = 1
     /\ events[1].type \in {"enabled", "error"}
     /\ dataFile.kind # "store")
    => (/\ events[1].type = "enabled"
        /\ DOMAIN selected = {}
        /\ DOMAIN ranks = {}
        /\ running
        /\ objectives = Stats)

\* label shown for p on a leaderboard row
BoardLabel(p) ==
    LET stat == IF p \in DOMAIN selected THEN selected[p] ELSE "mob_kills"
    IN  IF Stored(ranks, p, stat) = None THEN NEWBIE_TAG ELSE Stored(ranks, p, stat)

\* C7: after a permitted /resetranks both mappings are empty, and every player
\* tracked before it shows the Newbie sentinel (name tag when online, chat
\* prefix, leaderboard label) until their progress is next recorded.
C7_ResetShowsNewbie ==
    /\ (Len(events) > 0 /\ events[Len(events)].type = "reset_done")
          => (DOMAIN selected = {} /\ DOMAIN ranks = {})
    /\ \A p \in sinceReset :
          /\ p \in online => nameTag[p] = NEWBIE_TAG
          /\ ChatPrefix(selected, ranks, score, p) = NEWBIE_TAG
          /\ BoardLabel(p) = NEWBIE_TAG

\* C7 witness: after a reset, one online player has not been recorded since
\* while another player has been recorded again and holds a label
C7_Witness ==
    \E p \in sinceReset \cap online, q \in online \ sinceReset :
        /\ q \in DOMAIN ranks
        /\ DOMAIN ranks[q] # {}
        /\ nameTag[p] = NEWBIE_TAG

\* the rows of the last leaderboard query
IsBoard == Len(events) > 0 /\ events[1].type \in {"row", "nodata"}

BoardStat == events[1].stat

BoardQualifying ==
    {q \in online : (\E i \in 1..Len(sbEntries) : sbEntries[i] = q)
                    /\ score[q][BoardStat] > 0}

BoardListed == {events[i].player : i \in {j \in 1..Len(events) : events[j].type = "row"}}

\* C8: a leaderboard has at most 5 player rows, lists only players whose count
\* is > 0, never omits a qualifying player with a strictly higher count than a
\* listed one, and is the single "No data yet." row when nobody qualifies.
C8_LeaderboardMembership ==
    IsBoard =>
        /\ Cardinality({i \in 1..Len(events) : events[i].type = "row"}) <= 5
        /\ \A i \in 1..Len(events) :
              events[i].type = "row" =>
                 /\ events[i].player \in BoardQualifying
                 /\ events[i].n = score[events[i].player][BoardStat]
                 /\ events[i].n > 0
        /\ \A q \in BoardQualifying \ BoardListed, r \in BoardListed :
              score[q][BoardStat] <= score[r][BoardStat]
        /\ (BoardQualifying = {}) => events = << Ev("nodata", "-", BoardStat, "-", 0) >>
        /\ (BoardQualifying # {}) => \A i \in 1..Len(events) : events[i].type = "row"

\* C8 witness: six players qualify and five are listed
C8_Witness ==
    /\ IsBoard
    /\ Cardinality(BoardQualifying) = 6
    /\ Cardinality(BoardListed) = 5

\* C9 as stated: each row's count is strictly greater than the next row's.
C9_StrictlyDescending ==
    IsBoard =>
        \A i \in 1..(Len(events) - 1) :
            (events[i].type = "row" /\ events[i + 1].type = "row")
               => events[i].n > events[i + 1].n

\* position of player p in the scoreboard's enumeration
EntryIndex(p) == CHOOSE i \in 1..Len(sbEntries) : sbEntries[i] = p

\* C9 amended: the rows are in non-increasing order of count, and rows with
\* equal counts are in the scoreboard's enumeration order.
C9_NonIncreasing ==
    IsBoard =>
        \A i \in 1..(Len(events) - 1) :
            (events[i].type = "row" /\ events[i + 1].type = "row")
               => \/ events[i].n > events[i + 1].n
                  \/ /\ events[i].n = events[i + 1].n
                     /\ EntryIndex(events[i].player) < EntryIndex(events[i + 1].player)

\* C9 witness: a board with a strict descent followed by a tie, the scoreboard
\* enumerating its players in descending name order
C9_Witness ==
    /\ IsBoard
    /\ Len(events) >= 3
    /\ events[3].type = "row"
    /\ events[1].n > events[2].n
    /\ events[2].n = events[3].n
    /\ sbEntries[1] = "p6"

\* C10: when the reward of a promotion fails, the new label is stored, the
\* broadcast and the title are still emitted after it, the name tag is
\* refreshed when the stat is the selected one, no error reaches the handler,
\* and only the reward confirmation is missing.
C10_FailedRewardKeepsPromotion ==
    \A i \in 1..Len(events) :
        events[i].type = "reward_failed" =>
            LET p == events[i].player
                s == events[i].stat
                l == events[i].label
            IN  /\ Stored(ranks, p, s) = l
                /\ \E j \in (i + 1)..Len(events) : events[j] = Ev("broadcast", p, s, l, 0)
                /\ \E j \in (i + 1)..Len(events) : events[j] = Ev("title", p, s, l, 0)
                /\ CountEv(events, "confirm", p, s) = 0
                /\ \A j \in 1..Len(events) : events[j].type # "error"
                /\ (p \in DOMAIN selected /\ selected[p] = s)
                      => /\ \E j \in (i + 1)..Len(events) :
                               events[j].type = "nametag" /\ events[j].player = p
                         /\ nameTag[p] = RuleLabel(p)

\* C10 witness: the reward for a promotion in the player's selected stat
\* failed and the name tag now shows the new label
C10_Witness ==
    \E i \in 1..Len(events) :
        /\ events[i].type = "reward_failed"
        /\ events[i].player \in DOMAIN selected
        /\ selected[events[i].player] = events[i].stat
        /\ nameTag[events[i].player] = events[i].label

IsDelivery(t) ==
    t \in {"reward", "reward_failed", "confirm", "broadcast", "broadcast_failed",
           "title", "title_failed"}

\* C11: in every promotion the label is stored before the reward, the
\* broadcast and the title are attempted; when the broadcast or the title
\* fails, the store holds the newly resolved label for (player, stat) and no
\* entry that the handler did not record has changed.
C11_CommitBeforeNotify ==
    [][\A i \in 1..Len(events') :
          /\ IsDelivery(events'[i].type) =>
                \E j \in 1..(i - 1) :
                    events'[j] = Ev("commit", events'[i].player, events'[i].stat,
                                    events'[i].label, 0)
          /\ events'[i].type \in {"broadcast_failed", "title_failed"} =>
                /\ Stored(ranks', events'[i].player, events'[i].stat) = events'[i].label
                /\ \A q \in Players, t \in Stats :
                      CountEv(events', "commit", q, t) = 0
                         => Stored(ranks', q, t) = Stored(ranks, q, t)]_vars

\* C11 witness: a title failed to be delivered for a promotion whose label
\* the store holds
C11_Witness ==
    \E i \in 1..Len(events) :
        /\ events[i].type = "title_failed"
        /\ Stored(ranks, events[i].player, events[i].stat) = events[i].label
        /\ events[i].label = "Slayer"

---------------------------------------------------------------------------
\* C12: resolving a stat name that is not one of the three configured
\* stats ends in a ConfigurationError outcome and never in a label, the
\* empty label included.
C12_UnknownStatFails ==
    (probe.result # None /\ probe.stat \notin Stats) =>
        probe.result = "ConfigurationError"

\* C13: when a handler records a stat for a player who had no stored label
\* for it (a progress event, /rankup at any count, the join back-fill), the
\* step emits the reward dispatch for that (stat, label), the broadcast and
\* the title.
C13_FirstRecordingPromotes ==
    [][\A i \in 1..Len(events') :
          (events'[i].type = "commit"
             /\ Stored(ranks, events'[i].player, events'[i].stat) = None) =>
             LET p == events'[i].player
                 s == events'[i].stat
                 l == events'[i].label
             IN  /\ l = GetRankName(s, score'[p][s])
                 /\ \E j \in (i + 1)..Len(events') :
                       /\ events'[j].type \in {"reward", "reward_failed"}
                       /\ events'[j].player = p /\ events'[j].stat = s
                       /\ events'[j].label = l
                 /\ \E j \in (i + 1)..Len(events') : events'[j] = Ev("broadcast", p, s, l, 0)
                 /\ \E j \in (i + 1)..Len(events') : events'[j] = Ev("title", p, s, l, 0)]_vars

\* C13 witness: /rankup recorded a stat whose count is 0 for the first time
\* and the promotion to the lowest tier was announced
C13_Witness ==
    \E p \in Players :
        /\ score[p]["player_kills"] = 0
        /\ HasEv(events, "commit", p, "player_kills", "Fighter")
        /\ HasEv(events, "broadcast", p, "player_kills", "Fighter")
        /\ HasEv(events, "title", p, "player_kills", "Fighter")

\* the file holding {"selected": {}, "ranks": {}}
EmptyStoreFile == File("store", {}, {})

\* C14: a permitted /resetranks leaves the empty store in the file whatever
\* the file held before; a stop right after it, through on_disable or by
\* killing the process, leaves the empty store in the file; and a startup
\* on that file loads two empty mappings.
C14_ResetPersists ==
    [][/\ (Len(events') > 0 /\ events'[Len(events')].type = "reset_done")
             => dataFile' = EmptyStoreFile
       /\ (Len(events) > 0 /\ events[Len(events)].type = "reset_done"
             /\ running /\ ~running')
             => dataFile' = EmptyStoreFile
       /\ (~running /\ running' /\ dataFile = EmptyStoreFile)
             => (selected' = EmptyDict /\ ranks' = EmptyDict)]_vars

\* C14 witness: the plugin started on the empty store a reset wrote over a
\* file that held labels, and the players stored before are unknown to it
C14_Witness ==
    /\ running
    /\ events = << Ev("enabled", "-", "-", "store", 0) >>
    /\ dataFile = EmptyStoreFile
    /\ "p1" \in sinceReset
    /\ selected = EmptyDict /\ ranks = EmptyDict
    /\ score["p1"] = ZeroScores

\* C15: the file changes only in an on_disable step or a permitted
\* /resetranks step (no progress recording, join, chat, selection change,
\* /rankup or leaderboard query writes it), and a startup, after a clean or
\* an unclean stop, loads exactly the store the most recent of those two
\* operations wrote.
C15_NoPerEventFlush ==
    [][/\ dataFile' # dataFile
             => \/ (running /\ ~running' /\ events' = << Ev("disabled", "-", "-", "-", 0) >>)
                \/ (Len(events') > 0 /\ events'[Len(events')].type = "reset_done")
       /\ lastWrite.by # "none" => dataFile = JsonDump(lastWrite.selected, lastWrite.ranks)
       /\ (~running /\ running' /\ lastWrite.by # "none")
             => (selected' = lastWrite.selected /\ ranks' = lastWrite.ranks)]_vars

\* C15 witness: a player was recorded after a reset, the process was killed,
\* and the startup loaded the empty store the reset wrote: the recorded
\* label is gone while the counter is kept
C15_Witness ==
    /\ running
    /\ events = << Ev("enabled", "-", "-", "store", 0) >>
    /\ lastWrite.by = "reset"
    /\ ranks = EmptyDict
    /\ \E p \in Players : score[p]["mob_kills"] = 1 /\ p \notin sinceReset

\* C16: a valid selection (index 0..2) changes only the selecting player's
\* selected stat and that player's name tag: no cached label, no other
\* player's selection or name tag, no counter and not the file, and it emits
\* no promotion, reward or broadcast; an out-of-range index changes nothing.
C16_SelectionOnly ==
    [][/\ (Len(events') > 0 /\ events'[Len(events')].type = "shown") =>
             LET p == events'[Len(events')].player
                 s == events'[Len(events')].stat
             IN  /\ selected' = Put(selected, p, s)
                 /\ nameTag' = [nameTag EXCEPT ![p] = DisplayRank(selected', ranks, score, p)]
                 /\ UNCHANGED <<running, ranks, dataFile, objectives, score, sbEntries, online>>
                 /\ \A i \in 1..Len(events') :
                       events'[i].type \in {"nametag", "shown"} /\ events'[i].player = p
       /\ \A p \in Players, idx \in {-1, 3} :
             SubHandle(p, idx) =>
                /\ events' = <<>>
                /\ UNCHANGED <<running, selected, ranks, dataFile, objectives, score,
                               sbEntries, online, nameTag>>]_vars

\* C16 witness: a player holding a mob_kills label selected ores_mined and
\* the name tag shows the ores_mined label
C16_Witness ==
    \E p \in online :
        /\ Len(events) > 0
        /\ events[Len(events)] = Ev("shown", p, "ores_mined", "-", 0)
        /\ selected[p] = "ores_mined"
        /\ nameTag[p] = "Miner"
        /\ Stored(ranks, p, "mob_kills") = "Hunter"

\* C17: after on_player_join the player has a selected stat, the stored one
\* if there was one and mob_kills otherwise (no other selection changes); a
\* ranks record exists for the player; every stat of the player whose count
\* is above 0 has a cached label; and every label that was cached before the
\* join, of any player, is unchanged.
C17_JoinEstablishesRecord ==
    [][\A p \in Players :
          (running /\ p \notin online /\ p \in online') =>
             /\ selected' = [q \in DOMAIN selected \cup {p} |->
                                IF q \in DOMAIN selected THEN selected[q] ELSE "mob_kills"]
             /\ p \in DOMAIN ranks'
             /\ \A s \in Stats : score'[p][s] > 0 => Stored(ranks', p, s) # None
             /\ \A q \in Players, s \in Stats :
                   Stored(ranks, q, s) # None => Stored(ranks', q, s) = Stored(ranks, q, s)
             /\ score' = score]_vars

\* C17 witness: a player unknown to the store joined with counts above 0:
\* the name tag was rendered under the default selection, then the
\* back-fill recorded the missing labels
C17_Witness ==
    \E p \in online :
        /\ Len(events) > 1
        /\ events[1] = Ev("nametag", p, "mob_kills", NEWBIE_TAG, 0)
        /\ \E i \in 2..Len(events) : events[i] = Ev("commit", p, "ores_mined", "Miner", 0)
        /\ selected[p] = "mob_kills"
        /\ \A s \in Stats : Stored(ranks, p, s) # None

\* every cached label equals the resolver's result for the current count
CacheCoherent ==
    \A p \in Players, s \in Stats :
        Stored(ranks, p, s) # None => Stored(ranks, p, s) = GetRankName(s, score[p][s])

\* C18 as stated: in every reachable state, after clean and unclean
\* shutdown-then-startup cycles alike, every cached label equals the
\* resolver's result for the player's current count of that stat.
C18_CacheCoherent == CacheCoherent

\* C18 amended: as long as the process has not been killed while the plugin
\* was running since the store was last reset, every cached label equals
\* the resolver's result for the player's current count of that stat.
C18_CoherentWithoutKill == ~unclean => CacheCoherent

\* C18 witness: a label earned in one session was saved by on_disable and
\* loaded by the next startup, and it matches the counter the host kept
C18_Witness ==
    /\ ~unclean
    /\ running
    /\ events = << Ev("enabled", "-", "-", "store", 1) >>
    /\ lastWrite.by = "disable"
    /\ \E p \in Players :
          score[p]["mob_kills"] = 20 /\ Stored(ranks, p, "mob_kills") = "Slayer"

\* C19: after every completed operation each online player's name tag shows
\* the label the display rule yields from the current state, with mob_kills
\* as the selected stat of a player who has no stored selection.
C19_NameTagCurrent ==
    running => \A p \in online : nameTag[p] = RuleLabel(p)

\* C20: between resets, across kills, ore breaks, joins, /rankup and clean
\* shutdown-then-startup cycles, the reward of a (player, stat, label) is
\* dispatched at most once and its promotion broadcast is emitted at most
\* once: no handler dispatches or broadcasts a promotion already announced,
\* and none does so twice within one call.
C20_RewardsOnce ==
    [][/\ \A i \in 1..Len(events') :
             events'[i].type \in {"reward", "reward_failed", "broadcast"} =>
                <<events'[i].player, events'[i].stat, events'[i].label>> \notin granted
       /\ \A p \in Players, s \in Stats :
             /\ CountEv(events', "reward", p, s) + CountEv(events', "reward_failed", p, s) <= 1
             /\ CountEv(events', "broadcast", p, s) <= 1]_vars

\* C20 witness: a player promoted in one session rejoined after a clean
\* restart and ran /rankup: the label was recorded again without a reward
\* or a broadcast
C20_Witness ==
    /\ running
    /\ lastWrite.by = "disable"
    /\ \E p \in online :
          /\ <<p, "mob_kills", "Hunter">> \in granted
          /\ Len(events) > 0
          /\ events[1] = Ev("commit", p, "mob_kills", "Hunter", 0)
          /\ CountEv(events, "broadcast", p, "mob_kills") = 0
          /\ CountEv(events, "reward", p, "mob_kills") = 0

====
